---- MODULE Spec2Model ----
(***************************************************************************)
(* Model of the ps2map territory backend (src/app): the state manager and  *)
(* its per-zone territory controllers, the message bus, the REST poll loop *)
(* and the event-stream connect loop.                                      *)
(***************************************************************************)
EXTENDS Integers, Sequences, FiniteSets, TLC

VARIABLES
    territory,   \* StateManager._territory: (server, zone) -> controller
    now,         \* the clock read by datetime.datetime.now
    call,        \* the handler call that ran last, with what it returned
    emitted      \* what that call passed to StateManager.emit

smVars == <<territory, now, call, emitted>>

VARIABLES
    subscriptions,  \* MessagingComponent.__subscriptions: topic -> callbacks
    ready,          \* the event loop's queue of scheduled callbacks
    emits,          \* the emit calls made inside the loop, by payload
    invoked,        \* how often each callback was run with each payload
    failed,         \* the (callback, payload) runs that raised
    bus_ret         \* what the last call of the bus returned or raised

busVars == <<subscriptions, ready, emits, invoked, failed, bus_ret>>

VARIABLES
    running,     \* CensusSync._running
    poll_task,   \* CensusSync._poll_task: None or the task running _poll
    loops,       \* the tasks created for _poll, in creation order
    fetches,     \* the tasks created for _fetch, in creation order
    clock        \* the time of the event loop, in ticks of its timer

pollVars == <<running, poll_task, loops, fetches, clock>>

VARIABLES
    listener,    \* the task running EventListener._connect
    zones,       \* EventListener._zones
    handled      \* the event _handle_event got last, with what it emitted

streamVars == <<listener, zones, handled>>

VARIABLES
    map_state,   \* the committed rows of the map state table, by facility
    sync_call    \* the sync_zone call that ran last, with how it ended

dbVars == <<map_state, sync_call>>

vars == <<smVars, busVars, pollVars, streamVars, dbVars>>

----------------------------------------------------------------------------
\* Input domains and bounds of the state manager model.

ServerIds == {1}
ZoneIds == {2}
FacilityIds == {1, 2}
FactionIds == {1, 2, 3}
OutfitIds == {7}
MaxTime == 2

\* Python's None, outside every id and timestamp domain.
None == -1

\* The empty dict.
EmptyDict == [k \in {} |-> None]

\* dict.items(): the set of (key, value) pairs.
DictItems(d) == {<<k, d[k]>> : k \in DOMAIN d}

\* dict.get(key): the value, or None when the key is absent.
DictGet(d, k) == IF k \in DOMAIN d THEN d[k] ELSE None

\* Every dict from a subset of keys to values.
Dicts(keys, values) == UNION {[dom -> values] : dom \in SUBSET keys}

----------------------------------------------------------------------------
\* _types.py

\* The named tuple FacilityStatus, with the field names it declares.
FacilityStatus(faction, last_captured, outfit) ==
    [current_faction |-> faction, last_capture |-> last_captured,
     last_capture_by |-> outfit]

\* Attribute access on a named tuple: the field's value, or AttributeError
\* when the tuple declares no field of that name.
GetAttr(obj, name) ==
    IF name \in DOMAIN obj
    THEN [raised |-> FALSE, value |-> obj[name]]
    ELSE [raised |-> TRUE, value |-> None]

----------------------------------------------------------------------------
\* _territory_controller.py

\* Variant: the constructor takes the zone for the server and the server
\* for the zone.
NewController_swapped(server_id, zone_id) ==
    [server_id |-> zone_id, zone_id |-> server_id,
     ownership |-> EmptyDict, outfits |-> EmptyDict]

\* TerritoryController.__init__
NewController(server_id, zone_id) ==
    [server_id |-> server_id, zone_id |-> zone_id,
     ownership |-> EmptyDict, outfits |-> EmptyDict]

\* TerritoryController.map_status
map_status(ctl) ==
    <<ctl.server_id, ctl.zone_id,
      [facility \in DOMAIN ctl.ownership |->
          FacilityStatus(ctl.ownership[facility][1],
                         ctl.ownership[facility][2],
                         DictGet(ctl.outfits, facility))]>>

\* TerritoryController._facility_items
facility_items(ctl) ==
    {<<k, ctl.ownership[k][1]>> : k \in DOMAIN ctl.ownership}

\* dict(facilities.items() - self._facility_items())
ownership_changes(ctl, facilities) ==
    LET items == DictItems(facilities) \ facility_items(ctl)
    IN  [k \in {it[1] : it \in items} |-> facilities[k]]

\* The loop of update_ownership over the changes: each changed facility
\* gets its new faction and the given time, and loses its outfit.
ownership_after(ctl, changes, time) ==
    [ctl EXCEPT
        !.ownership = [k \in DOMAIN ctl.ownership \cup DOMAIN changes |->
                          IF k \in DOMAIN changes
                          THEN <<changes[k], time>>
                          ELSE ctl.ownership[k]],
        !.outfits = [k \in DOMAIN ctl.outfits \ DOMAIN changes |->
                        ctl.outfits[k]]]

\* Variant: the initialising branch reports no change.
update_ownership_silent_init(ctl, facilities, time) ==
    IF DOMAIN ctl.ownership = {}
    THEN [ctl |-> [ctl EXCEPT !.ownership =
                      [k \in DOMAIN facilities |-> <<facilities[k], time>>]],
          count |-> 0, bootstrap |-> TRUE]
    ELSE LET changes == ownership_changes(ctl, facilities)
         IN  [ctl |-> ownership_after(ctl, changes, time),
              count |-> Cardinality(DOMAIN changes), bootstrap |-> FALSE]

\* Variant: the candidate is compared with the stored (faction, timestamp)
\* pairs, facilities.items() - self._ownership.items(), so every entry of
\* the candidate counts as changed.
update_ownership_raw_items(ctl, facilities, time) ==
    IF DOMAIN ctl.ownership = {}
    THEN [ctl |-> [ctl EXCEPT !.ownership =
                      [k \in DOMAIN facilities |-> <<facilities[k], time>>]],
          count |-> Cardinality(DOMAIN facilities), bootstrap |-> TRUE]
    ELSE [ctl |-> ownership_after(ctl, facilities, time),
          count |-> Cardinality(DOMAIN facilities), bootstrap |-> FALSE]

\* Variant: the changes are applied but the size of the candidate is
\* returned, len(facilities).
update_ownership_len_candidate(ctl, facilities, time) ==
    IF DOMAIN ctl.ownership = {}
    THEN [ctl |-> [ctl EXCEPT !.ownership =
                      [k \in DOMAIN facilities |-> <<facilities[k], time>>]],
          count |-> Cardinality(DOMAIN facilities), bootstrap |-> TRUE]
    ELSE LET changes == ownership_changes(ctl, facilities)
         IN  [ctl |-> ownership_after(ctl, changes, time),
              count |-> Cardinality(DOMAIN facilities), bootstrap |-> FALSE]

\* Variant: the outfit of a changed facility is kept.
update_ownership_keep_outfit(ctl, facilities, time) ==
    IF DOMAIN ctl.ownership = {}
    THEN [ctl |-> [ctl EXCEPT !.ownership =
                      [k \in DOMAIN facilities |-> <<facilities[k], time>>]],
          count |-> Cardinality(DOMAIN facilities), bootstrap |-> TRUE]
    ELSE LET changes == ownership_changes(ctl, facilities)
         IN  [ctl |-> [ownership_after(ctl, changes, time)
                          EXCEPT !.outfits = ctl.outfits],
              count |-> Cardinality(DOMAIN changes), bootstrap |-> FALSE]

\* Variant: a facility that changes hands is stamped with the time the
\* clock starts at instead of the time of the call.
update_ownership_first_time(ctl, facilities, time) ==
    IF DOMAIN ctl.ownership = {}
    THEN [ctl |-> [ctl EXCEPT !.ownership =
                      [k \in DOMAIN facilities |-> <<facilities[k], time>>]],
          count |-> Cardinality(DOMAIN facilities), bootstrap |-> TRUE]
    ELSE LET changes == ownership_changes(ctl, facilities)
         IN  [ctl |-> ownership_after(ctl, changes, 0),
              count |-> Cardinality(DOMAIN changes), bootstrap |-> FALSE]

\* Variant: the map is built anew from the candidate on every call.
update_ownership_rebuild(ctl, facilities, time) ==
    LET changes == ownership_changes(ctl, facilities)
    IN  [ctl |-> [ctl EXCEPT !.ownership =
                     [k \in DOMAIN facilities |->
                         IF k \in DOMAIN changes \/ k \notin DOMAIN ctl.ownership
                         THEN <<facilities[k], time>>
                         ELSE ctl.ownership[k]]],
         count |-> IF DOMAIN ctl.ownership = {}
                   THEN Cardinality(DOMAIN facilities)
                   ELSE Cardinality(DOMAIN changes),
         bootstrap |-> DOMAIN ctl.ownership = {}]

\* TerritoryController.update_ownership: the controller afterwards, the
\* returned count, and whether the initialising branch ran.
update_ownership(ctl, facilities, time) ==
    IF DOMAIN ctl.ownership = {}
    THEN LET own == [k \in DOMAIN facilities |-> <<facilities[k], time>>]
         IN  [ctl |-> [ctl EXCEPT !.ownership = own],
              count |-> Cardinality(DOMAIN own),
              bootstrap |-> TRUE]
    ELSE LET changes == ownership_changes(ctl, facilities)
         IN  [ctl |-> ownership_after(ctl, changes, time),
              count |-> Cardinality(DOMAIN changes),
              bootstrap |-> FALSE]

----------------------------------------------------------------------------
\* _state_manager.py

\* Variant: _get_controller registers a new controller on every call.
get_controller_fresh(reg, server_id, zone_id) ==
    LET key == <<server_id, zone_id>>
    IN  [k \in DOMAIN reg \cup {key} |->
            IF k = key THEN NewController(server_id, zone_id) ELSE reg[k]]

\* StateManager._get_controller: the registry after the lookup.
get_controller(reg, server_id, zone_id) ==
    LET key == <<server_id, zone_id>>
    IN  IF key \in DOMAIN reg
        THEN reg
        ELSE [k \in DOMAIN reg \cup {key} |->
                 IF k = key THEN NewController(server_id, zone_id) ELSE reg[k]]

\* The record kept of a handler call: the handler, its payload, the count
\* update_ownership returned (None when it was not called), the exception
\* the handler raised, whether update_ownership took its initialising
\* branch, whether the call before was the same call, and the facilities
\* that had an outfit recorded when the handler was entered.
CallRecord(op, payload, count, raised, bootstrap) ==
    [op |-> op, payload |-> payload, count |-> count, raised |-> raised,
     bootstrap |-> bootstrap,
     repeat |-> (op = call.op /\ payload = call.payload),
     prev_bootstrap |-> call.bootstrap,
     outfits_before |->
        IF <<payload[1], payload[2]>> \in DOMAIN territory
        THEN DOMAIN territory[<<payload[1], payload[2]>>].outfits
        ELSE {}]

\* Variant: map_status is emitted whatever count update_ownership returned.
handle_map_poll_always(server_id, zone_id, facilities) ==
    LET key == <<server_id, zone_id>>
        reg == get_controller(territory, server_id, zone_id)
        res == update_ownership(reg[key], facilities, now)
        after == [reg EXCEPT ![key] = res.ctl]
    IN  /\ territory' = after
        /\ emitted' = <<<<"map_update", map_status(after[key])>>>>
        /\ call' = CallRecord("handle_map_poll",
                              <<server_id, zone_id, facilities>>,
                              res.count, "none", res.bootstrap)
        /\ UNCHANGED now

\* StateManager.handle_map_poll, run as a callback of the event loop, where
\* emit does not raise.
handle_map_poll(server_id, zone_id, facilities) ==
    LET key == <<server_id, zone_id>>
        reg == get_controller(territory, server_id, zone_id)
        res == update_ownership(reg[key], facilities, now)
        after == [reg EXCEPT ![key] = res.ctl]
    IN  /\ territory' = after
        /\ emitted' = IF res.count > 0
                      THEN <<<<"map_update", map_status(after[key])>>>>
                      ELSE <<>>
        /\ call' = CallRecord("handle_map_poll",
                              <<server_id, zone_id, facilities>>,
                              res.count, "none", res.bootstrap)
        /\ UNCHANGED now

\* Variant: the handler reads the field FacilityStatus declares.
faction_id_declared(status) == GetAttr(status, "current_faction")

\* old_status.faction_id and status.faction_id, read off a FacilityStatus.
faction_id(status) == GetAttr(status, "faction_id")

\* Variant: a known facility is given the faction of the update and
\* stamped again, resecured or not.
apply_map_update_restamp(ctl, base_id, status, time) ==
    IF base_id \in DOMAIN ctl.ownership
    THEN [ctl |-> [ctl EXCEPT !.ownership[base_id] =
                      <<status.current_faction, time>>],
          count |-> 1, raised |-> "none", bootstrap |-> FALSE,
          publish |-> TRUE]
    ELSE [ctl |-> ctl, count |-> None, raised |-> "none",
          bootstrap |-> FALSE, publish |-> FALSE]

\* The body of StateManager.handle_map_update once the controller is
\* retrieved: the controller afterwards, the count update_ownership
\* returned (None when it was not called), the exception raised, and
\* whether map_status is emitted.
apply_map_update(ctl, base_id, status, time) ==
    LET statuses == map_status(ctl)[3]
        known == base_id \in DOMAIN statuses
        Raise == [ctl |-> ctl, count |-> None, raised |-> "AttributeError",
                  bootstrap |-> FALSE, publish |-> FALSE]
        Return == [ctl |-> ctl, count |-> None, raised |-> "none",
                   bootstrap |-> FALSE, publish |-> FALSE]
    IN  IF known /\ faction_id(statuses[base_id]).raised THEN Raise
        ELSE IF faction_id(status).raised THEN Raise
        ELSE IF known /\ faction_id(statuses[base_id]).value
                             = faction_id(status).value
        THEN Return
        ELSE LET res == update_ownership(
                            ctl, [k \in {base_id} |-> faction_id(status).value],
                            time)
             IN  [ctl |-> res.ctl, count |-> res.count, raised |-> "none",
                  bootstrap |-> res.bootstrap, publish |-> res.count # 0]

\* StateManager.handle_map_update
handle_map_update(server_id, zone_id, base_id, status) ==
    LET key == <<server_id, zone_id>>
        reg == get_controller(territory, server_id, zone_id)
        controller == reg[key]
        mismatched == \/ server_id # controller.server_id
                      \/ zone_id # controller.zone_id
        res == apply_map_update(controller, base_id, status, now)
        after == IF mismatched THEN reg ELSE [reg EXCEPT ![key] = res.ctl]
    IN  /\ territory' = after
        /\ emitted' = IF ~mismatched /\ res.publish
                      THEN <<<<"map_update", map_status(after[key])>>>>
                      ELSE <<>>
        /\ call' = CallRecord("handle_map_update",
                              <<server_id, zone_id, base_id, status>>,
                              IF mismatched THEN None ELSE res.count,
                              IF mismatched THEN "none" ELSE res.raised,
                              ~mismatched /\ res.bootstrap)
        /\ UNCHANGED now

\* The statuses EventListener._on_facility_control builds from an event.
EventStatuses ==
    {FacilityStatus(faction, now, outfit) :
        faction \in FactionIds, outfit \in OutfitIds \cup {None}}

\* The zones and facilities of the messages in the specification that
\* follows a registry of several controllers.
RegistryZones == ZoneIds \cup {4}
RegistryFacilities == {1}

\* The clock advances.
Tick ==
    /\ now < MaxTime
    /\ now' = now + 1
    /\ UNCHANGED <<territory, call, emitted>>

SmInit ==
    /\ territory = EmptyDict
    /\ now = 0
    /\ call = [op |-> "init", payload |-> <<>>, count |-> None,
               raised |-> "none", bootstrap |-> FALSE, repeat |-> FALSE,
               prev_bootstrap |-> FALSE, outfits_before |-> {}]
    /\ emitted = <<>>

----------------------------------------------------------------------------
\* _messaging.py, with the event loop that runs what emit schedules.

Topics == {"map_poll", "map_update"}

\* Two subscribers: a regular function and a coroutine function.
Callbacks == {"on_message", "on_message_async"}

\* asyncio.iscoroutinefunction(callback)
IsCoroutineFunction(callback) == callback = "on_message_async"

\* The number of emit calls followed.
MaxEmits == 1

\* The payload of the next emit call: each call carries its own.
NextPayload == Cardinality(DOMAIN emits) + 1

Payloads == 1..MaxEmits

\* self.__subscriptions.get(topic, [])
Subscribers(topic) ==
    IF topic \in DOMAIN subscriptions THEN subscriptions[topic] ELSE <<>>

\* The elements of a list.
Range(seq) == {seq[i] : i \in 1..Len(seq)}

\* list.remove(x): the list without its first x.
RemoveFirst(seq, x) ==
    LET i == CHOOSE j \in 1..Len(seq) :
                seq[j] = x /\ \A k \in 1..(j - 1) : seq[k] # x
    IN  [j \in 1..(Len(seq) - 1) |-> IF j < i THEN seq[j] ELSE seq[j + 1]]

\* A dict with one key set.
DictSet(d, key, value) ==
    [k \in DOMAIN d \cup {key} |-> IF k = key THEN value ELSE d[k]]

\* Variant: subscribe appends the callback whether the list holds it or not.
subscribe_append(topic, callback, in_loop) ==
    /\ subscriptions' =
          DictSet(subscriptions, topic, Append(Subscribers(topic), callback))
    /\ bus_ret' = "None"
    /\ UNCHANGED <<ready, emits, invoked, failed>>

\* MessagingComponent.subscribe, called inside a running event loop or not:
\* the method never asks for the loop.
subscribe(topic, callback, in_loop) ==
    /\ subscriptions' =
          IF callback \in Range(Subscribers(topic))
          THEN DictSet(subscriptions, topic, Subscribers(topic))
          ELSE DictSet(subscriptions, topic,
                       Append(Subscribers(topic), callback))
    /\ bus_ret' = "None"
    /\ UNCHANGED <<ready, emits, invoked, failed>>

\* Variant: unsubscribe drops the topic's whole list when it holds the
\* callback.
unsubscribe_pop_topic(topic, callback) ==
    /\ IF topic \in DOMAIN subscriptions
          /\ callback \in Range(subscriptions[topic])
       THEN /\ subscriptions' = [subscriptions EXCEPT ![topic] = <<>>]
            /\ bus_ret' = "True"
       ELSE /\ subscriptions' = subscriptions
            /\ bus_ret' = "False"
    /\ UNCHANGED <<ready, emits, invoked, failed>>

\* MessagingComponent.unsubscribe
unsubscribe(topic, callback) ==
    /\ IF topic \in DOMAIN subscriptions
          /\ callback \in Range(subscriptions[topic])
       THEN /\ subscriptions' =
                  [subscriptions EXCEPT
                      ![topic] = RemoveFirst(subscriptions[topic], callback)]
            /\ bus_ret' = "True"
       ELSE /\ subscriptions' = subscriptions
            /\ bus_ret' = "False"
    /\ UNCHANGED <<ready, emits, invoked, failed>>

\* Variant: emit goes through the subscribers of every topic.
Scheduled_every_topic(topic, payload) ==
    LET all == IF Subscribers(topic) = <<>> THEN <<>>
               ELSE Subscribers("map_poll") \o Subscribers("map_update")
    IN  [i \in 1..Len(all) |->
            [callback |-> all[i], payload |-> payload,
             via |-> IF IsCoroutineFunction(all[i])
                     THEN "create_task" ELSE "call_soon_threadsafe"]]

\* What the loop of emit hands to the event loop, one entry per subscriber:
\* loop.create_task(callback(payload)) for a coroutine function,
\* loop.call_soon_threadsafe(callback, payload) for a regular one.
Scheduled(topic, payload) ==
    [i \in 1..Len(Subscribers(topic)) |->
        [callback |-> Subscribers(topic)[i], payload |-> payload,
         via |-> IF IsCoroutineFunction(Subscribers(topic)[i])
                 THEN "create_task" ELSE "call_soon_threadsafe"]]

\* Variant: emit calls each subscriber itself, callback(payload), and a
\* subscriber that raises ends the call.
emit_inline(topic, payload, in_loop) ==
    IF ~in_loop
    THEN /\ bus_ret' = "RuntimeError"
         /\ UNCHANGED <<subscriptions, ready, emits, invoked, failed>>
    ELSE \E n \in 0..Len(Subscribers(topic)), raises \in BOOLEAN :
            LET subs == Subscribers(topic)
                ran == {subs[i] : i \in 1..n}
            IN  /\ raises => n > 0
                /\ ~raises => n = Len(subs)
                /\ invoked' = [x \in DOMAIN invoked |->
                                  IF x[1] \in ran /\ x[2] = payload
                                  THEN invoked[x] + 1 ELSE invoked[x]]
                /\ failed' = IF raises
                             THEN failed \cup {<<subs[n], payload>>}
                             ELSE failed
                /\ emits' = DictSet(emits, payload,
                                    [topic |-> topic, subscribers |-> subs])
                /\ bus_ret' = IF raises THEN "CallbackError" ELSE "None"
                /\ UNCHANGED <<subscriptions, ready>>

\* MessagingComponent.emit, called inside a running event loop or not.
emit(topic, payload, in_loop) ==
    IF ~in_loop
    THEN /\ bus_ret' = "RuntimeError"
         /\ UNCHANGED <<subscriptions, ready, emits, invoked, failed>>
    ELSE /\ ready' = ready \o Scheduled(topic, payload)
         /\ emits' = DictSet(emits, payload,
                             [topic |-> topic,
                              subscribers |-> Subscribers(topic)])
         /\ bus_ret' = "None"
         /\ UNCHANGED <<subscriptions, invoked, failed>>

\* Variant: the event loop looks the callback up in the topic's list when
\* its turn comes and drops it when it is no longer subscribed.
RunCallback_if_subscribed ==
    /\ ready # <<>>
    /\ LET run == <<Head(ready).callback, Head(ready).payload>>
           topic == emits[Head(ready).payload].topic
       IN  IF Head(ready).callback \in Range(Subscribers(topic))
           THEN /\ invoked' = [invoked EXCEPT ![run] = @ + 1]
                /\ \E raises \in BOOLEAN :
                      failed' = IF raises THEN failed \cup {run} ELSE failed
           ELSE UNCHANGED <<invoked, failed>>
    /\ ready' = Tail(ready)
    /\ UNCHANGED <<subscriptions, emits, bus_ret>>

\* The event loop runs the callback at the head of its queue; the callback
\* returns or raises, and an exception stays with the handle or task that
\* ran it.
RunCallback ==
    /\ ready # <<>>
    /\ LET run == <<Head(ready).callback, Head(ready).payload>>
       IN  /\ invoked' = [invoked EXCEPT ![run] = @ + 1]
           /\ \E raises \in BOOLEAN :
                 failed' = IF raises THEN failed \cup {run} ELSE failed
    /\ ready' = Tail(ready)
    /\ UNCHANGED <<subscriptions, emits, bus_ret>>

BusInit ==
    /\ subscriptions = EmptyDict
    /\ ready = <<>>
    /\ emits = EmptyDict
    /\ invoked = [x \in Callbacks \X Payloads |-> 0]
    /\ failed = {}
    /\ bus_ret = "None"

----------------------------------------------------------------------------
\* _census_sync.py, with the event loop's timer and the HTTP responses.

\* self._poll_interval, in ticks of the timer.
PollInterval == 2

\* polling_timeout, which __main__ hands over next to polling_interval, in
\* ticks of the timer: less than two intervals.
PollTimeout == 3

\* How far the timer is followed, and how many times start() creates a task.
MaxClock == 4
MaxStarts == 2

\* self._worlds
Worlds == {1}

\* What session.get(url) can come to: a response with a status, whose body
\* holds zone records or none, or an exception of the client.
Responses == {"status_200", "status_200_no_zones", "status_503", "ClientError"}

\* Variant: start creates the task of _poll whether the component is
\* running or not.
start_unguarded ==
    /\ loops' = Append(loops,
          [state |-> "scheduled", last_tick |-> None, ticks |-> 0])
    /\ poll_task' = Len(loops) + 1
    /\ running' = TRUE
    /\ UNCHANGED <<fetches, clock>>

\* CensusSync.start
start ==
    /\ IF ~running
       THEN /\ loops' = Append(loops,
                  [state |-> "scheduled", last_tick |-> None, ticks |-> 0])
            /\ poll_task' = Len(loops) + 1
       ELSE UNCHANGED <<loops, poll_task>>
    /\ running' = TRUE
    /\ UNCHANGED <<fetches, clock>>

\* CensusSync.stop; Task.cancel() ends the task at the await it is
\* suspended in, or before its first step.
stop ==
    /\ IF running /\ poll_task # None
       THEN /\ loops' = [loops EXCEPT ![poll_task].state = "cancelled"]
            /\ poll_task' = None
       ELSE UNCHANGED <<loops, poll_task>>
    /\ running' = FALSE
    /\ UNCHANGED <<fetches, clock>>

\* The fetches that have not finished.
Outstanding == {f \in 1..Len(fetches) : fetches[f].state = "outstanding"}

\* Variant: the loop waits for the fetches it started before it goes on.
TickDue_after_fetch(id) ==
    /\ \/ loops[id].state = "scheduled"
       \/ /\ loops[id].state = "sleeping"
          /\ clock >= loops[id].last_tick + PollInterval
    /\ \A f \in Outstanding : fetches[f].by # id

\* The task of _poll can take its next step: it was just created, or its
\* asyncio.sleep(self._poll_interval) has run out.
TickDue(id) ==
    \/ loops[id].state = "scheduled"
    \/ /\ loops[id].state = "sleeping"
       /\ clock >= loops[id].last_tick + PollInterval

\* One round of the loop of CensusSync._poll: create the task of _fetch and
\* go to sleep.
poll_tick(id) ==
    /\ TickDue(id)
    /\ fetches' = Append(fetches,
          [by |-> id, at |-> clock, state |-> "outstanding",
           worlds |-> [w \in Worlds |-> "pending"],
           published |-> [w \in Worlds |-> 0]])
    /\ loops' = [loops EXCEPT ![id] =
          [state |-> "sleeping", last_tick |-> clock, ticks |-> @.ticks + 1]]
    /\ UNCHANGED <<running, poll_task, clock>>

\* len(self._build_payloads(world_id, await resp.json())): the zone records
\* in the body of a response.
ZoneRecords(response) == IF response = "status_200" THEN 1 ELSE 0

\* Variant: _rest_received publishes the record with emit, running or not.
rest_received_emit(is_running) ==
    [raised |-> FALSE, published |-> 1]

\* CensusSync._rest_received for one zone record: whether it raised and how
\* many map_poll messages it published. When the component is running it
\* calls self.dispatch, a method MessagingComponent does not have; when it
\* is not, it does nothing.
rest_received(is_running) ==
    IF is_running
    THEN [raised |-> TRUE, published |-> 0]
    ELSE [raised |-> FALSE, published |-> 0]

\* fetch_world for one response: how it ended and the map_poll messages it
\* published. A status other than 200 is logged; each zone record of a 200
\* goes to _rest_received; an exception leaves through asyncio.gather.
fetch_world(response) ==
    CASE response = "ClientError" ->
            [outcome |-> "ClientError", published |-> 0]
      [] response = "status_503" ->
            [outcome |-> "not_200", published |-> 0]
      [] response \in {"status_200", "status_200_no_zones"} ->
            IF ZoneRecords(response) = 0
            THEN [outcome |-> "returned", published |-> 0]
            ELSE LET res == rest_received(running)
                 IN  [outcome |-> IF res.raised THEN "AttributeError"
                                  ELSE IF res.published > 0 THEN "published"
                                  ELSE "discarded",
                      published |-> IF res.raised THEN 0
                                    ELSE ZoneRecords(response) * res.published]

\* A response arrives for one world of an outstanding fetch. _fetch logs an
\* exception of any world and ends; it returns when every world is done.
fetch_response(f, w, response) ==
    /\ f \in Outstanding
    /\ fetches[f].worlds[w] = "pending"
    /\ LET result == fetch_world(response)
           worlds == [fetches[f].worlds EXCEPT ![w] = result.outcome]
       IN  fetches' = [fetches EXCEPT ![f] =
              [@ EXCEPT !.worlds = worlds,
                        !.published[w] = result.published,
                        !.state =
                           IF result.outcome
                                 \in {"ClientError", "AttributeError"}
                           THEN "logged_exception"
                           ELSE IF \A x \in Worlds : worlds[x] # "pending"
                           THEN "returned"
                           ELSE "outstanding"]]
    /\ UNCHANGED <<running, poll_task, loops, clock>>

\* The timer advances once every task that can run has run.
advance ==
    /\ clock < MaxClock
    /\ \A id \in 1..Len(loops) : ~TickDue(id)
    /\ clock' = clock + 1
    /\ UNCHANGED <<running, poll_task, loops, fetches>>

PollInit ==
    /\ running = FALSE
    /\ poll_task = None
    /\ loops = <<>>
    /\ fetches = <<>>
    /\ clock = 0

----------------------------------------------------------------------------
\* _realtime.py, with the event client's connection and the timer.

\* self._reconnect_timeout, in ticks of the timer.
ReconnectTimeout == 5

\* How many times the connect loop is followed through client.connect().
MaxConnects == 3

\* The zones a listener can be told to track.
TrackableZones == {2, 4}

\* EventListener.add_zone
add_zone(zone_id) ==
    /\ zones' = zones \cup {zone_id}
    /\ UNCHANGED <<listener, handled>>

\* EventListener.remove_zone
remove_zone(zone_id) ==
    /\ zones' = zones \ {zone_id}
    /\ UNCHANGED <<listener, handled>>

\* The top of the loop of EventListener._connect: a new client is made, its
\* triggers are added, and the task awaits client.connect().
connect ==
    /\ \/ listener.state = "scheduled"
       \/ listener.state = "waiting" /\ listener.left = 0
    /\ listener.connects < MaxConnects
    /\ listener' = [state |-> "connected", left |-> 0,
                    connects |-> listener.connects + 1]
    /\ UNCHANGED <<zones, handled>>

\* await self._client.connect() is over: it returned, and the loop goes on
\* to asyncio.sleep(self._reconnect_timeout); or it raised, and nothing in
\* _connect catches the exception, which ends the task.
connect_ended(raised) ==
    /\ listener.state = "connected"
    /\ listener' = IF raised
                   THEN [listener EXCEPT !.state = "raised"]
                   ELSE [listener EXCEPT !.state = "waiting",
                                         !.left = ReconnectTimeout]
    /\ UNCHANGED <<zones, handled>>

\* One tick of the timer while the loop sleeps.
reconnect_wait ==
    /\ listener.state = "waiting"
    /\ listener.left > 0
    /\ listener' = [listener EXCEPT !.left = @ - 1]
    /\ UNCHANGED <<zones, handled>>

\* The task is cancelled from outside; CancelledError is no Exception and
\* ends the coroutine wherever it is suspended.
cancel_listener ==
    /\ listener.state \in {"scheduled", "connected", "waiting"}
    /\ listener' = [listener EXCEPT !.state = "cancelled"]
    /\ UNCHANGED <<zones, handled>>

\* self.server_id of the listener, and the worlds events come from.
ListenerServerId == CHOOSE s \in ServerIds : TRUE
EventWorlds == ServerIds \cup {13}

\* The events the client can hand to _handle_event: FacilityControl, another
\* kind that has a zone_id (ContinentLock), and a kind that has none
\* (PlayerLogin). outfit_id is 0 when no outfit took the facility.
Events ==
    {[kind |-> "FacilityControl", world_id |-> w, zone_id |-> z,
      facility_id |-> f, new_faction_id |-> n, outfit_id |-> o,
      timestamp |-> 0] :
        w \in EventWorlds, z \in TrackableZones, f \in {1},
        n \in {1, 2}, o \in {0} \cup OutfitIds}
    \cup {[kind |-> "ContinentLock", world_id |-> w, zone_id |-> z] :
            w \in EventWorlds, z \in TrackableZones}
    \cup {[kind |-> "PlayerLogin", world_id |-> w] : w \in EventWorlds}

\* getattr(obj, name, default)
GetAttrOr(obj, name, default) ==
    IF name \in DOMAIN obj THEN obj[name] ELSE default

\* EventListener._dispatch_map_update: the message handed to self.emit.
dispatch_map_update(zone_id, facility_id, status) ==
    <<"map_update", <<ListenerServerId, zone_id, facility_id, status>>>>

\* EventListener._on_facility_control: the messages emitted.
on_facility_control(evt) ==
    LET outfit == IF evt.outfit_id # 0 THEN evt.outfit_id ELSE None
        status == FacilityStatus(evt.new_faction_id, evt.timestamp, outfit)
    IN  <<dispatch_map_update(evt.zone_id, evt.facility_id, status)>>

\* Variant: _handle_event does not look at the zone of the event.
handle_event_any_zone(evt) ==
    /\ listener.state = "connected"
    /\ handled' =
          [evt |-> evt,
           emitted |->
              IF evt.world_id # ListenerServerId THEN <<>>
              ELSE IF evt.kind = "FacilityControl"
              THEN on_facility_control(evt)
              ELSE <<>>]
    /\ UNCHANGED <<listener, zones>>

\* EventListener._handle_event, called by the client for an event it
\* received over its connection.
handle_event(evt) ==
    /\ listener.state = "connected"
    /\ handled' =
          [evt |-> evt,
           emitted |->
              IF evt.world_id # ListenerServerId THEN <<>>
              ELSE IF GetAttrOr(evt, "zone_id", None) \notin zones THEN <<>>
              ELSE IF evt.kind = "FacilityControl"
              THEN on_facility_control(evt)
              ELSE <<>>]
    /\ UNCHANGED <<listener, zones>>

\* EventListener.__init__: the task is created, the startup zones are kept.
StreamInit ==
    /\ listener = [state |-> "scheduled", left |-> 0, connects |-> 0]
    /\ zones \in SUBSET TrackableZones
    /\ handled = [evt |-> [kind |-> "none"], emitted |-> <<>>]

\* No listener has been constructed.
NoStream ==
    /\ listener = [state |-> "none", left |-> 0, connects |-> 0]
    /\ zones = {}
    /\ handled = [evt |-> [kind |-> "none"], emitted |-> <<>>]

----------------------------------------------------------------------------
\* _db_connector.py, with the table that UPDATE_MAP_STATE writes.

\* The statuses a map status handed to sync_zone can hold.
DbStatuses ==
    {FacilityStatus(faction, 0, outfit) :
        faction \in FactionIds, outfit \in OutfitIds \cup {None}}

\* The keys of a dict in the order zone_data.items() goes through them.
RECURSIVE KeysInOrder(_)
KeysInOrder(keys) ==
    IF keys = {} THEN <<>>
    ELSE LET first == CHOOSE k \in keys : \A other \in keys : k <= other
         IN  <<first>> \o KeysInOrder(keys \ {first})

\* One step of param_gen in sync_zone: the query parameters of a row, read
\* off the status by the names status.faction_id, status.owning_outfit_id
\* and status.last_secured.
param_gen(facility_id, world_id, zone_id, status) ==
    LET faction == GetAttr(status, "faction_id")
        outfit == GetAttr(status, "owning_outfit_id")
        secured == GetAttr(status, "last_secured")
    IN  [raised |-> faction.raised \/ outfit.raised \/ secured.raised,
         value |-> <<facility_id, world_id, zone_id, TRUE, faction.value,
                     IF outfit.value = None THEN 0 ELSE outfit.value,
                     secured.value>>]

\* The loop of sync_zone over the rows still to write, with what is done so
\* far (the table, the rows committed and rolled back): cur.execute raises
\* psycopg.IntegrityError for the facilities in failing, which is rolled
\* back and logged; any other row is committed; an exception of param_gen
\* is not caught and ends the loop.
RECURSIVE sync_rows(_, _, _, _, _, _)
sync_rows(keys, done, world_id, zone_id, zone_data, failing) ==
    IF keys = <<>>
    THEN [done EXCEPT !.raised = "none"]
    ELSE LET facility_id == Head(keys)
             params == param_gen(facility_id, world_id, zone_id,
                                 zone_data[facility_id])
         IN  IF params.raised
             THEN [done EXCEPT !.raised = "AttributeError"]
             ELSE IF facility_id \in failing
             THEN sync_rows(Tail(keys),
                            [done EXCEPT !.rolled_back = @ \cup {facility_id}],
                            world_id, zone_id, zone_data, failing)
             ELSE sync_rows(Tail(keys),
                            [done EXCEPT
                                !.table = DictSet(@, facility_id, params.value),
                                !.committed = @ \cup {facility_id}],
                            world_id, zone_id, zone_data, failing)

\* DbConnector.sync_zone
sync_zone(world_id, zone_id, zone_data, failing) ==
    LET res == sync_rows(KeysInOrder(DOMAIN zone_data),
                         [table |-> map_state, raised |-> "none",
                          committed |-> {}, rolled_back |-> {}],
                         world_id, zone_id, zone_data, failing)
    IN  /\ map_state' = res.table
        /\ sync_call' = [payload |-> <<world_id, zone_id, zone_data>>,
                         failing |-> failing, raised |-> res.raised,
                         committed |-> res.committed,
                         rolled_back |-> res.rolled_back]

\* The table before any call of sync_zone.
DbInit ==
    /\ map_state = EmptyDict
    /\ sync_call = [payload |-> <<>>, failing |-> {}, raised |-> "none",
                    committed |-> {}, rolled_back |-> {}]

----------------------------------------------------------------------------
\* Specifications.

Init == SmInit /\ BusInit /\ PollInit /\ NoStream /\ DbInit

\* The state manager handling map_poll and map_update messages.
Next ==
    \/ \E s \in ServerIds, z \in ZoneIds, f \in Dicts(FacilityIds, FactionIds) :
          handle_map_poll(s, z, f) /\ UNCHANGED <<busVars, pollVars, streamVars, dbVars>>
    \/ \E s \in ServerIds, z \in ZoneIds, b \in FacilityIds,
          st \in EventStatuses :
          handle_map_update(s, z, b, st)
             /\ UNCHANGED <<busVars, pollVars, streamVars, dbVars>>
    \/ Tick /\ UNCHANGED <<busVars, pollVars, streamVars, dbVars>>

Spec == Init /\ [][Next]_vars

\* A controller as update_ownership can meet it: any ownership map, with
\* outfits recorded for any of its facilities.
InitOutfits ==
    /\ \E s \in ServerIds, z \in ZoneIds, f \in Dicts(FacilityIds, FactionIds) :
          \E o \in Dicts(DOMAIN f, OutfitIds) :
             territory = [k \in {<<s, z>>} |->
                [NewController(s, z) EXCEPT
                    !.ownership = [b \in DOMAIN f |-> <<f[b], 0>>],
                    !.outfits = o]]
    /\ now = 0
    /\ call = [op |-> "init", payload |-> <<>>, count |-> None,
               raised |-> "none", bootstrap |-> FALSE, repeat |-> FALSE,
               prev_bootstrap |-> FALSE, outfits_before |-> {}]
    /\ emitted = <<>>
    /\ BusInit /\ PollInit /\ NoStream /\ DbInit

\* The handlers run on a controller that holds recorded outfits.
SpecOutfits == InitOutfits /\ [][Next]_vars

\* A message bus with its subscribers, emitters and event loop.
NextBus ==
    \/ \E t \in Topics, cb \in Callbacks, in_loop \in BOOLEAN :
          subscribe(t, cb, in_loop)
             /\ UNCHANGED <<smVars, pollVars, streamVars, dbVars>>
    \/ \E t \in Topics, cb \in Callbacks :
          unsubscribe(t, cb) /\ UNCHANGED <<smVars, pollVars, streamVars, dbVars>>
    \/ \E t \in Topics, in_loop \in BOOLEAN :
          /\ Cardinality(DOMAIN emits) < MaxEmits
          /\ emit(t, NextPayload, in_loop)
          /\ UNCHANGED <<smVars, pollVars, streamVars, dbVars>>
    \/ RunCallback /\ UNCHANGED <<smVars, pollVars, streamVars, dbVars>>

SpecBus == Init /\ [][NextBus]_vars

\* The running event loop gets to every callback in its queue.
SpecBusFair ==
    SpecBus /\ WF_vars(RunCallback /\ UNCHANGED <<smVars, pollVars, streamVars, dbVars>>)

\* The poll ingester with its loop task, its fetches and the timer.
NextPoll ==
    \/ /\ running \/ Len(loops) < MaxStarts
       /\ start
       /\ UNCHANGED <<smVars, busVars, streamVars, dbVars>>
    \/ stop /\ UNCHANGED <<smVars, busVars, streamVars, dbVars>>
    \/ \E id \in 1..Len(loops) :
          poll_tick(id) /\ UNCHANGED <<smVars, busVars, streamVars, dbVars>>
    \/ \E f \in 1..Len(fetches), w \in Worlds, r \in Responses :
          fetch_response(f, w, r) /\ UNCHANGED <<smVars, busVars, streamVars, dbVars>>
    \/ advance /\ UNCHANGED <<smVars, busVars, streamVars, dbVars>>

SpecPoll == Init /\ [][NextPoll]_vars

\* The stream ingester with its connect loop and its tracked zones.
NextStream ==
    \/ \E z \in TrackableZones :
          add_zone(z) /\ UNCHANGED <<smVars, busVars, pollVars, dbVars>>
    \/ \E z \in TrackableZones :
          remove_zone(z) /\ UNCHANGED <<smVars, busVars, pollVars, dbVars>>
    \/ connect /\ UNCHANGED <<smVars, busVars, pollVars, dbVars>>
    \/ \E raised \in BOOLEAN :
          connect_ended(raised) /\ UNCHANGED <<smVars, busVars, pollVars, dbVars>>
    \/ reconnect_wait /\ UNCHANGED <<smVars, busVars, pollVars, dbVars>>
    \/ cancel_listener /\ UNCHANGED <<smVars, busVars, pollVars, dbVars>>
    \/ \E evt \in Events :
          handle_event(evt) /\ UNCHANGED <<smVars, busVars, pollVars, dbVars>>

InitStream == SmInit /\ BusInit /\ PollInit /\ StreamInit /\ DbInit

SpecStream == InitStream /\ [][NextStream]_vars

\* The state manager handling messages for several (server, zone) keys.
NextKeys ==
    \/ \E s \in ServerIds, z \in RegistryZones :
          \E f \in Dicts(RegistryFacilities, FactionIds) :
             handle_map_poll(s, z, f)
                /\ UNCHANGED <<busVars, pollVars, streamVars, dbVars>>
    \/ \E s \in ServerIds, z \in RegistryZones, b \in RegistryFacilities :
          \E st \in EventStatuses :
             handle_map_update(s, z, b, st)
                /\ UNCHANGED <<busVars, pollVars, streamVars, dbVars>>
    \/ Tick /\ UNCHANGED <<busVars, pollVars, streamVars, dbVars>>

SpecKeys == Init /\ [][NextKeys]_vars

\* The persistence sink writing the map statuses it is handed.
NextDb ==
    \/ \E w \in ServerIds, z \in ZoneIds, d \in Dicts(FacilityIds, DbStatuses) :
          \E failing \in SUBSET DOMAIN d :
             sync_zone(w, z, d, failing)
                /\ UNCHANGED <<smVars, busVars, pollVars, streamVars>>

SpecDb == Init /\ [][NextDb]_vars

----------------------------------------------------------------------------
\* Properties of the state manager and the territory controller.

\* The (server, zone) key of a handler call.
CallKey(c) == <<c.payload[1], c.payload[2]>>

\* The ownership map registered under a key, empty when there is none.
OwnershipAt(reg, key) ==
    IF key \in DOMAIN reg THEN reg[key].ownership ELSE EmptyDict

\* The outfit map registered under a key, empty when there is none.
OutfitsAt(reg, key) ==
    IF key \in DOMAIN reg THEN reg[key].outfits ELSE EmptyDict

\* This step is a call of handle_map_poll / handle_map_update.
PollStep == now' = now /\ call'.op = "handle_map_poll"
UpdateStep == now' = now /\ call'.op = "handle_map_update"

\* The facilities of a candidate that the ownership map does not hold with
\* the candidate's faction.
Differing(own, facilities) ==
    {k \in DOMAIN facilities :
        k \notin DOMAIN own \/ own[k][1] # facilities[k]}

\* C1 Bootstrap: update_ownership(mapping) on a controller whose ownership
\* map is empty leaves exactly the facilities of mapping, each with the
\* faction of mapping and the time of the call, and returns len(mapping).
C1_Bootstrap ==
    [][(PollStep /\ DOMAIN OwnershipAt(territory, CallKey(call')) = {}) =>
        LET facilities == call'.payload[3]
            own == OwnershipAt(territory', CallKey(call'))
        IN  /\ DOMAIN own = DOMAIN facilities
            /\ \A k \in DOMAIN facilities : own[k] = <<facilities[k], now>>
            /\ call'.count = Cardinality(DOMAIN facilities)]_smVars

\* A non-empty mapping was adopted by an empty controller after the clock
\* had advanced.
C1_Witness ==
    /\ call.op = "handle_map_poll" /\ call.bootstrap
    /\ call.count = 2
    /\ \E k \in DOMAIN OwnershipAt(territory, CallKey(call)) :
          OwnershipAt(territory, CallKey(call))[k][2] > 0

\* C2 Idempotence: when update_ownership(M) ran on an initialised
\* controller and runs again with the same M and no call in between, the
\* second call returns 0 and leaves the ownership map (factions and
\* timestamps) and the outfit map as they were.
C2_Idempotent ==
    [][(PollStep /\ call.op = "handle_map_poll" /\ ~call.bootstrap
            /\ call'.payload = call.payload) =>
        /\ call'.count = 0
        /\ OwnershipAt(territory', CallKey(call'))
              = OwnershipAt(territory, CallKey(call'))
        /\ OutfitsAt(territory', CallKey(call'))
              = OutfitsAt(territory, CallKey(call'))]_smVars

\* The same non-empty mapping was applied twice to an initialised
\* controller, the second time after the clock had advanced past the stamps.
C2_Witness ==
    /\ call.op = "handle_map_poll" /\ call.repeat
    /\ ~call.bootstrap /\ ~call.prev_bootstrap
    /\ DOMAIN call.payload[3] # {}
    /\ \A k \in DOMAIN call.payload[3] :
          OwnershipAt(territory, CallKey(call))[k][2] < now

\* C3 Resecure suppression: handle_map_update for a facility the controller
\* knows, with the faction the facility already has, leaves the stored
\* faction and timestamp of the facility as they were and emits nothing.
C3_ResecureSuppressed ==
    [][(UpdateStep
            /\ call'.payload[3] \in DOMAIN OwnershipAt(territory, CallKey(call'))
            /\ OwnershipAt(territory, CallKey(call'))[call'.payload[3]][1]
                  = call'.payload[4].current_faction) =>
        /\ call'.payload[3] \in DOMAIN OwnershipAt(territory', CallKey(call'))
        /\ OwnershipAt(territory', CallKey(call'))[call'.payload[3]]
              = OwnershipAt(territory, CallKey(call'))[call'.payload[3]]
        /\ emitted' = <<>>]_smVars

\* A facility was resecured by its owner after the clock had advanced past
\* its stamp.
C3_Witness ==
    /\ call.op = "handle_map_update"
    /\ call.payload[3] \in DOMAIN OwnershipAt(territory, CallKey(call))
    /\ OwnershipAt(territory, CallKey(call))[call.payload[3]][1]
          = call.payload[4].current_faction
    /\ OwnershipAt(territory, CallKey(call))[call.payload[3]][2]
          < call.payload[4].last_capture
    /\ emitted = <<>>

C5_OutfitCleared ==
    [][(now' = now /\ call'.op # "init" /\ call'.count # None) =>
        LET before == OwnershipAt(territory, CallKey(call'))
            own == OwnershipAt(territory', CallKey(call'))
        IN  \A f \in DOMAIN before :
               own[f][1] # before[f][1] =>
                  map_status(territory'[CallKey(call')])[3][f].last_capture_by
                      = None]_smVars

\* update_ownership changed every facility of a candidate, one of which had
\* an outfit recorded.
C5_Witness ==
    /\ call.op = "handle_map_poll" /\ ~call.bootstrap
    /\ call.count = Cardinality(DOMAIN call.payload[3])
    /\ call.outfits_before \cap DOMAIN call.payload[3] # {}

\* C9 Publish only on net change: handle_map_poll emits one map_update
\* message, carrying the controller's map_status, exactly when
\* update_ownership returned a non-zero count; a snapshot equal to the
\* controller's ownership emits nothing, and neither does the same snapshot
\* handled a second time.
C9_PublishOnChange ==
    [][PollStep =>
        LET key == CallKey(call')
            facilities == call'.payload[3]
        IN  /\ emitted' = IF call'.count # 0
                          THEN <<<<"map_update", map_status(territory'[key])>>>>
                          ELSE <<>>
            /\ (key \in DOMAIN territory
                    /\ DictItems(facilities) = facility_items(territory[key]))
                  => emitted' = <<>>
            /\ (call.op = "handle_map_poll" /\ call.payload = call'.payload)
                  => emitted' = <<>>]_smVars

\* A snapshot equal to the ownership of an initialised controller was
\* handled and nothing was emitted.
C9_Witness ==
    /\ call.op = "handle_map_poll" /\ ~call.bootstrap
    /\ DOMAIN call.payload[3] # {}
    /\ DictItems(call.payload[3]) = facility_items(territory[CallKey(call)])
    /\ call.count = 0 /\ emitted = <<>>

\* C10 Snapshot reconciliation: after update_ownership(candidate) on an
\* initialised controller every facility of candidate has the faction
\* candidate gives it, and the returned count is the number of facilities of
\* candidate that the controller did not hold with that faction before.
C10_Reconciled ==
    [][(PollStep /\ DOMAIN OwnershipAt(territory, CallKey(call')) # {}) =>
        LET facilities == call'.payload[3]
            before == OwnershipAt(territory, CallKey(call'))
            own == OwnershipAt(territory', CallKey(call'))
        IN  /\ \A k \in DOMAIN facilities :
                  k \in DOMAIN own /\ own[k][1] = facilities[k]
            /\ call'.count = Cardinality(Differing(before, facilities))]_smVars

\* A candidate of two facilities was applied to an initialised controller
\* and exactly one of them changed.
C10_Witness ==
    /\ call.op = "handle_map_poll" /\ ~call.bootstrap
    /\ Cardinality(DOMAIN call.payload[3]) = 2
    /\ call.count = 1

\* C11 Genuine capture: handle_map_update for a facility the controller
\* knows, with a faction other than the one the facility has, stores the new
\* faction with the time of the call, has map_status report the outfit of
\* the update when it carries one, and emits one map_update message with the
\* controller's map_status.
C11_GenuineCapture ==
    [][(UpdateStep
            /\ call'.payload[3] \in DOMAIN OwnershipAt(territory, CallKey(call'))
            /\ OwnershipAt(territory, CallKey(call'))[call'.payload[3]][1]
                  # call'.payload[4].current_faction) =>
        LET key == CallKey(call')
            base_id == call'.payload[3]
            status == call'.payload[4]
        IN  /\ OwnershipAt(territory', key)[base_id]
                  = <<status.current_faction, now>>
            /\ status.last_capture_by # None =>
                  map_status(territory'[key])[3][base_id].last_capture_by
                      = status.last_capture_by
            /\ emitted' = <<<<"map_update", map_status(territory'[key])>>>>]_smVars

C22_SnapshotFrame ==
    [][(PollStep /\ DOMAIN OwnershipAt(territory, CallKey(call')) # {}) =>
        LET facilities == call'.payload[3]
            before == OwnershipAt(territory, CallKey(call'))
            own == OwnershipAt(territory', CallKey(call'))
        IN  \A f \in DOMAIN before :
               IF f \in DOMAIN facilities /\ facilities[f] # before[f][1]
               THEN own[f] = <<facilities[f], now>>
               ELSE f \in DOMAIN own /\ own[f] = before[f]]_smVars

\* A candidate that names one facility with its faction and another with a
\* new one was applied after the clock had advanced: the first kept its
\* stamp, the second has the time of the call.
C22_Witness ==
    /\ call.op = "handle_map_poll" /\ ~call.bootstrap
    /\ call.count = 1
    /\ Cardinality(DOMAIN call.payload[3]) = 2
    /\ \E f, g \in DOMAIN call.payload[3] :
          /\ OwnershipAt(territory, CallKey(call))[f][2] < now
          /\ OwnershipAt(territory, CallKey(call))[g][2] = now

\* C23 Monotone timestamps: with a clock that does not go backwards, no
\* call of handle_map_poll or handle_map_update lowers the stored timestamp
\* of a facility of any controller.
C23_MonotoneTimestamps ==
    [][\A key \in DOMAIN territory :
          \A f \in DOMAIN territory[key].ownership :
             (key \in DOMAIN territory'
                 /\ f \in DOMAIN territory'[key].ownership) =>
                territory'[key].ownership[f][2]
                   >= territory[key].ownership[f][2]]_smVars

\* The one facility of an initialised controller changed hands when the
\* clock had advanced as far as it goes, and carries that time.
C23_Witness ==
    /\ call.op = "handle_map_poll" /\ ~call.bootstrap
    /\ call.count = 1
    /\ now = MaxTime
    /\ Cardinality(DOMAIN OwnershipAt(territory, CallKey(call))) = 1
    /\ \A f \in DOMAIN OwnershipAt(territory, CallKey(call)) :
          OwnershipAt(territory, CallKey(call))[f][2] = now

\* C24 Facilities are never removed: a facility that is a key of a
\* controller's ownership map is still a key of it after any call of
\* handle_map_poll or handle_map_update, a snapshot that omits it included.
C24_NeverRemoved ==
    [][\A key \in DOMAIN territory :
          /\ key \in DOMAIN territory'
          /\ DOMAIN territory[key].ownership
                \subseteq DOMAIN territory'[key].ownership]_smVars

\* A snapshot that omits a facility the controller holds, and changes
\* another, was applied; the omitted facility is still held.
C24_Witness ==
    /\ call.op = "handle_map_poll" /\ ~call.bootstrap
    /\ call.count = 1
    /\ DOMAIN OwnershipAt(territory, CallKey(call)) \ DOMAIN call.payload[3]
          # {}

\* This step is a call of one of the two handlers.
HandlerStep == PollStep \/ UpdateStep

\* C25 Registry growth: no step removes a key of the registry; a handler
\* call adds the key of its message when the registry does not hold it and
\* no other key; and when the registry holds the key the call works on the
\* controller stored there: the facilities it held are still held, those the
\* message does not give another faction keep faction and timestamp, and
\* its server id and zone id stay.
C25_RegistryGrowth ==
    [][/\ DOMAIN territory \subseteq DOMAIN territory'
       /\ HandlerStep =>
             LET key == CallKey(call')
                 before == OwnershipAt(territory, key)
                 own == OwnershipAt(territory', key)
                 given == IF call'.op = "handle_map_poll"
                          THEN call'.payload[3]
                          ELSE [b \in {call'.payload[3]} |->
                                   call'.payload[4].current_faction]
             IN  /\ DOMAIN territory' = DOMAIN territory \cup {key}
                 /\ key \notin DOMAIN territory =>
                       call'.bootstrap \/ DOMAIN own = {}
                 /\ key \in DOMAIN territory =>
                       /\ territory'[key].server_id = territory[key].server_id
                       /\ territory'[key].zone_id = territory[key].zone_id
                       /\ \A f \in DOMAIN before :
                             /\ f \in DOMAIN own
                             /\ f \notin Differing(before, given) =>
                                   own[f] = before[f]]_smVars

\* Both keys are registered; the last message, a snapshot without
\* facilities, reached a controller that holds a facility stamped earlier.
C25_Witness ==
    /\ Cardinality(DOMAIN territory) = 2
    /\ call.op = "handle_map_poll" /\ ~call.bootstrap
    /\ call.payload[3] = EmptyDict
    /\ \E f \in DOMAIN OwnershipAt(territory, CallKey(call)) :
          OwnershipAt(territory, CallKey(call))[f][2] < now

\* C26 Isolation between keys: a handler call for one key leaves the
\* controller of every other key, its ownership map and its outfit map, as
\* it was, and the controller stored under a key reports the server id and
\* the zone id of that key.
C26_KeyIsolation ==
    /\ [](\A key \in DOMAIN territory :
             /\ territory[key].server_id = key[1]
             /\ territory[key].zone_id = key[2])
    /\ [][HandlerStep =>
             \A other \in DOMAIN territory \ {CallKey(call')} :
                /\ other \in DOMAIN territory'
                /\ territory'[other] = territory[other]]_smVars

\* A snapshot changed the facility of one key while the controller of the
\* other key holds the facility with another faction and an earlier stamp.
C26_Witness ==
    /\ call.op = "handle_map_poll" /\ ~call.bootstrap /\ call.count = 1
    /\ \E other \in DOMAIN territory \ {CallKey(call)} :
          \E f \in DOMAIN territory[other].ownership :
             /\ f \in DOMAIN OwnershipAt(territory, CallKey(call))
             /\ territory[other].ownership[f][1]
                   # OwnershipAt(territory, CallKey(call))[f][1]
             /\ territory[other].ownership[f][2]
                   < OwnershipAt(territory, CallKey(call))[f][2]

----------------------------------------------------------------------------
\* Properties of the message bus.

\* C6 Bus isolation: when a topic has two or more subscribers and one of
\* them raises while handling a payload, every other subscriber of the topic
\* is still invoked with that payload, and no call of the bus ends with the
\* callback's exception.
C6_BusIsolation ==
    /\ [](bus_ret # "CallbackError")
    /\ \A p \in Payloads : \A cb \in Callbacks : \A other \in Callbacks \ {cb} :
          (/\ p \in DOMAIN emits
           /\ {cb, other} \subseteq Range(emits[p].subscribers)
           /\ <<cb, p>> \in failed)
             ~> (invoked[<<other, p>>] >= 1)

\* The first of two subscribers raised and the second was run after it.
C6_Witness ==
    /\ 1 \in DOMAIN emits
    /\ Len(emits[1].subscribers) = 2
    /\ <<emits[1].subscribers[1], 1>> \in failed
    /\ invoked[<<emits[1].subscribers[2], 1>>] = 1
    /\ bus_ret = "None"

\* C12 Delivery: for an emit(topic, payload) made inside a running event
\* loop, each callback that was in the topic's subscriber list at the call is
\* eventually invoked with the payload, no callback is invoked with it more
\* than once, and a callback that was not in that list, such as one
\* subscribed to another topic only, is never invoked with it.
C12_Delivery ==
    /\ [](\A p \in Payloads : \A cb \in Callbacks :
             /\ invoked[<<cb, p>>] <= 1
             /\ invoked[<<cb, p>>] >= 1 =>
                   /\ p \in DOMAIN emits
                   /\ cb \in Range(emits[p].subscribers))
    /\ \A p \in Payloads : \A cb \in Callbacks :
          (p \in DOMAIN emits /\ cb \in Range(emits[p].subscribers))
             ~> (invoked[<<cb, p>>] = 1)

\* A payload was emitted on a topic with one subscriber while the other
\* callback was subscribed to the other topic only; the event loop has run
\* everything, the subscriber once and the other callback not at all.
C12_Witness ==
    /\ 1 \in DOMAIN emits
    /\ Len(emits[1].subscribers) = 1
    /\ \E other \in Callbacks \ Range(emits[1].subscribers) :
          /\ \E t \in Topics \ {emits[1].topic} :
                other \in Range(Subscribers(t))
          /\ invoked[<<other, 1>>] = 0
    /\ invoked[<<emits[1].subscribers[1], 1>>] = 1
    /\ ready = <<>>

\* No element of a list occurs in it twice.
NoDuplicates(seq) ==
    \A i, j \in 1..Len(seq) : seq[i] = seq[j] => i = j

\* How many entries of the event loop's queue run a callback with a payload.
Pending(cb, p) ==
    Cardinality({i \in 1..Len(ready) :
                    ready[i].callback = cb /\ ready[i].payload = p})

\* C13 Subscribe is idempotent: whatever subscribe and unsubscribe calls
\* were made, no topic's subscriber list holds a callback twice; subscribe
\* of a callback the topic's list already holds leaves every list as it was;
\* and an emit schedules no callback twice, so a callback is never scheduled
\* and invoked more than once in all with one payload.
C13_SubscribeIdempotent ==
    /\ [](\A t \in Topics : NoDuplicates(Subscribers(t)))
    /\ [](\A cb \in Callbacks : \A p \in Payloads :
             invoked[<<cb, p>>] + Pending(cb, p) <= 1)
    /\ [][\A t \in Topics : \A cb \in Callbacks : \A in_loop \in BOOLEAN :
             (subscribe(t, cb, in_loop) /\ cb \in Range(Subscribers(t)))
                => subscriptions' = subscriptions]_vars

\* Both callbacks are subscribed to a topic and a payload emitted to the two
\* has been run once by each, the list being what it was at the emit.
C13_Witness ==
    /\ 1 \in DOMAIN emits
    /\ Len(emits[1].subscribers) = 2
    /\ Subscribers(emits[1].topic) = emits[1].subscribers
    /\ \A cb \in Callbacks : invoked[<<cb, 1>>] = 1
    /\ ready = <<>>

\* A list without the entries equal to x, the others in their order.
Without(seq, x) ==
    LET keep(y) == y # x
    IN  SelectSeq(seq, keep)

\* C14 Unsubscribe: unsubscribe(topic, callback) returns True when the
\* topic's list held the callback before the call and False when it did not;
\* after the call the list does not hold the callback and holds every other
\* callback as before, the lists of the other topics are as they were, and
\* after False nothing is changed; an emit schedules only callbacks that the
\* topic's list holds at the emit, so none that was unsubscribed before it.
C14_Unsubscribe ==
    [][/\ \A t \in Topics : \A cb \in Callbacks :
             unsubscribe(t, cb) =>
                /\ bus_ret' = IF cb \in Range(Subscribers(t))
                              THEN "True" ELSE "False"
                /\ cb \notin Range(Subscribers(t)')
                /\ Subscribers(t)' = Without(Subscribers(t), cb)
                /\ \A other \in Topics \ {t} :
                      Subscribers(other)' = Subscribers(other)
                /\ bus_ret' = "False" => subscriptions' = subscriptions
                /\ UNCHANGED <<ready, emits, invoked, failed>>
       /\ \A p \in DOMAIN emits' \ DOMAIN emits : \A cb \in Callbacks :
             cb \notin Range(Subscribers(emits'[p].topic)) =>
                Pending(cb, p)' = 0 /\ invoked'[<<cb, p>>] = 0]_vars

\* The last call of the bus was an unsubscribe that returned True; it left
\* one callback on its topic, and the other topic holds both callbacks.
C14_Witness ==
    /\ bus_ret = "True"
    /\ \E t \in Topics :
          /\ Len(Subscribers(t)) = 1
          /\ \A other \in Topics \ {t} : Len(Subscribers(other)) = 2

\* C15 Fail fast: emit and subscribe called while no event loop is running
\* raise at once; the emit puts nothing on the event loop's queue and the
\* subscribe leaves every subscriber list as it was.
C15_FailFast ==
    [][/\ \A t \in Topics :
             emit(t, NextPayload, FALSE) =>
                /\ bus_ret' = "RuntimeError"
                /\ UNCHANGED <<subscriptions, ready, emits, invoked>>
       /\ \A t \in Topics : \A cb \in Callbacks :
             subscribe(t, cb, FALSE) =>
                /\ bus_ret' = "RuntimeError"
                /\ subscriptions' = subscriptions]_vars

\* C28 Delivery set fixed at emit time: for an emitted payload, a callback
\* is in the event loop's queue or has been invoked, once in all, exactly
\* when the topic's list held it at the emit; subscribe and unsubscribe
\* calls made afterwards change neither the queue nor the invocations; and a
\* callback that is unsubscribed while it waits in the queue is still
\* invoked with the payload.
C28_DeliverySetFixed ==
    /\ [](\A p \in DOMAIN emits : \A cb \in Callbacks :
             invoked[<<cb, p>>] + Pending(cb, p)
                = IF cb \in Range(emits[p].subscribers) THEN 1 ELSE 0)
    /\ [][subscriptions' # subscriptions =>
             ready' = ready /\ invoked' = invoked]_vars
    /\ \A p \in Payloads : \A cb \in Callbacks :
          (/\ p \in DOMAIN emits
           /\ Pending(cb, p) = 1
           /\ cb \notin Range(Subscribers(emits[p].topic)))
             ~> (invoked[<<cb, p>>] = 1)

\* After an emit to one subscriber, and before the event loop ran it, the
\* subscriber was unsubscribed and the other callback was subscribed to the
\* topic.
C28_Witness ==
    /\ 1 \in DOMAIN emits
    /\ Len(emits[1].subscribers) = 1
    /\ Pending(emits[1].subscribers[1], 1) = 1
    /\ emits[1].subscribers[1] \notin Range(Subscribers(emits[1].topic))
    /\ \E other \in Callbacks \ Range(emits[1].subscribers) :
          /\ other \in Range(Subscribers(emits[1].topic))
          /\ invoked[<<other, 1>>] = 0

----------------------------------------------------------------------------
\* Properties of the ingesters.

\* The fetches a loop task has created.
FetchesOf(id) == {f \in 1..Len(fetches) : fetches[f].by = id}

\* C7 Poll loop immortality: until it is cancelled, the poll loop starts a
\* new fetch every polling interval, whether an earlier fetch raised, got a
\* response other than 200 or is still outstanding: the loop task only ever
\* ends cancelled by stop(), its latest fetch is never older than the
\* interval, and each earlier fetch was followed by the next one interval
\* later.
C7_PollImmortal ==
    \A id \in 1..Len(loops) :
       /\ loops[id].state \in {"scheduled", "sleeping", "cancelled"}
       /\ loops[id].state = "cancelled" => poll_task # id
       /\ Cardinality(FetchesOf(id)) = loops[id].ticks
       /\ loops[id].state = "sleeping" =>
             /\ clock - loops[id].last_tick <= PollInterval
             /\ \E f \in FetchesOf(id) : fetches[f].at = loops[id].last_tick
             /\ \A f \in FetchesOf(id) :
                   fetches[f].at < loops[id].last_tick =>
                      \E g \in FetchesOf(id) :
                         fetches[g].at = fetches[f].at + PollInterval

\* The loop has started its third fetch while the first is still
\* outstanding, the second has ended in an exception, and the third got a
\* response other than 200.
C7_Witness ==
    /\ Len(loops) >= 1 /\ loops[1].state = "sleeping" /\ loops[1].ticks = 3
    /\ fetches[1].state = "outstanding"
    /\ fetches[2].state = "logged_exception"
    /\ fetches[3].worlds[1] = "not_200"

\* C16 Per-tick timeout: no fetch is outstanding later than the per-tick
\* timeout after the tick that started it, and no fetch publishes a map_poll
\* message later than that.
C16_TickTimeout ==
    /\ [](\A f \in Outstanding : clock <= fetches[f].at + PollTimeout)
    /\ [][\A f \in 1..Len(fetches) : \A w \in Worlds :
             (f \in Outstanding /\ clock > fetches[f].at + PollTimeout) =>
                fetches'[f].published[w] = fetches[f].published[w]]_vars

\* C18 Poll fetch outcome: a response with a status other than 200 for a
\* world publishes no map_poll message for that world and ends the world's
\* request of this fetch, which is not made again; a response with status
\* 200 publishes one map_poll message for each zone record of its body.
C18_FetchOutcome ==
    [][\A f \in 1..Len(fetches) : \A w \in Worlds :
          /\ fetch_response(f, w, "status_503") =>
                /\ fetches'[f].published[w] = 0
                /\ fetches'[f].worlds[w] = "not_200"
          /\ fetches[f].worlds[w] = "not_200" =>
                fetches'[f].worlds[w] = "not_200"
          /\ \A r \in {"status_200", "status_200_no_zones"} :
                fetch_response(f, w, r) =>
                   fetches'[f].published[w] = ZoneRecords(r)]_vars

LiveLoops == {id \in 1..Len(loops) : loops[id].state # "cancelled"}

\* C27 Single poll loop: whatever start() and stop() calls were made, at
\* most one task of _poll is not cancelled; there is one exactly when the
\* ingester is marked running, and it is the one self._poll_task holds; no
\* step taken while the ingester is running creates a task of _poll.
C27_SinglePollLoop ==
    /\ [](/\ Cardinality(LiveLoops) <= 1
          /\ running <=> LiveLoops # {}
          /\ running => LiveLoops = {poll_task}
          /\ ~running => poll_task = None)
    /\ [][running => Len(loops') = Len(loops)]_vars

\* The ingester was started, stopped and started again: the first task is
\* cancelled and the second has made a tick.
C27_Witness ==
    /\ running
    /\ Len(loops) = 2
    /\ loops[1].state = "cancelled"
    /\ poll_task = 2 /\ loops[2].ticks >= 1

\* C8 Stream reconnect: whenever client.connect() ends, by returning or by
\* raising, the connect loop waits the reconnect delay and then connects
\* again; the loop ends only when it is cancelled.
C8_StreamReconnect ==
    [][listener.state = "connected" /\ listener'.state # "connected" =>
          \/ listener'.state = "cancelled"
          \/ listener'.state = "waiting"
                /\ listener'.left = ReconnectTimeout]_vars

\* C17 Stream filtering: every message _handle_event emits is a map_update
\* that carries the listener's own server id and a zone that is in the
\* tracked set at the call; an event of another world, of a zone that is not
\* tracked or of a kind other than FacilityControl emits nothing.
C17_StreamFiltering ==
    [][\A evt \in Events :
          handle_event(evt) =>
             /\ \A i \in 1..Len(handled'.emitted) :
                   /\ handled'.emitted[i][1] = "map_update"
                   /\ handled'.emitted[i][2][1] = ListenerServerId
                   /\ handled'.emitted[i][2][2] \in zones
             /\ (\/ evt.world_id # ListenerServerId
                 \/ "zone_id" \notin DOMAIN evt
                 \/ evt.zone_id \notin zones
                 \/ evt.kind # "FacilityControl")
                   => handled'.emitted = <<>>]_vars

\* A FacilityControl event of the listener's world and of a tracked zone was
\* handled and emitted, while the other zone was not tracked.
C17_Witness ==
    /\ handled.evt.kind = "FacilityControl"
    /\ Len(handled.emitted) = 1
    /\ handled.emitted[1][2][2] \in zones
    /\ TrackableZones \ zones # {}

----------------------------------------------------------------------------
\* Properties of the persistence sink.

\* C20 Persistence row isolation: sync_zone goes through every row of the
\* map status it is handed; a row whose write fails with an integrity error
\* leaves the table's row of that facility as it was, and every other row of
\* the batch, before or after it, is in the table when the call ends.
C20_RowIsolation ==
    [][\A w \in ServerIds : \A z \in ZoneIds :
       \A d \in Dicts(FacilityIds, DbStatuses) : \A failing \in SUBSET DOMAIN d :
          sync_zone(w, z, d, failing) =>
             /\ sync_call'.raised = "none"
             /\ sync_call'.committed = DOMAIN d \ failing
             /\ sync_call'.rolled_back = failing
             /\ \A k \in DOMAIN d \ failing :
                   /\ k \in DOMAIN map_state'
                   /\ map_state'[k][1] = k
                   /\ map_state'[k][5] = d[k].current_faction
             /\ \A k \in failing :
                   DictGet(map_state', k) = DictGet(map_state, k)]_vars

====
